---- MODULE Spec2Model ----
(***************************************************************************)
(* GARCH index volatility model: the batch orchestrator (backend/main.py), *)
(* the per-instrument pipeline (app/pipeline.py), model selection          *)
(* (app/models.py) and the VaR backtester (app/backtest.py).               *)
(*                                                                         *)
(* Numbers.  Confidence levels are in per-mille (950 is 0.95).  Returns    *)
(* and VaR values are in thousandths of a percent, volatilities in whole   *)
(* percent, normal quantiles in thousandths, so VaR = z * sigma is exact.  *)
(* A pandas Series is a sequence of rows [idx, val]; its index is the      *)
(* sequence of the rows' idx.  A Python call either returns (Ok) or raises *)
(* (Raise).                                                                *)
(***************************************************************************)
EXTENDS Integers, Sequences, FiniteSets, TLC

VARIABLES
    i,          \* main: position of the for loop in tickers
    pc,         \* main / run_pipeline: the statement about to run
    results,    \* main: the dict results, ticker -> report or error entry
    saved,      \* main: what json.dump wrote, or NotSaved
    frame,      \* run_pipeline: its local variables for the current ticker
    calls,      \* history: per ticker, the stages entered, in order
    call,       \* unit specification: the function applied and its arguments
    ret         \* unit specification: what the call returned or raised

vars == <<i, pc, results, saved, frame, calls, call, ret>>

----------------------------------------------------------------------------
(* Bounds of the model *)

MaxDate == 2        \* index values (dates) are 1..MaxDate
MaxAic == 1         \* AIC values are 0..MaxAic
MaxRows == 2        \* rows of a series handed to count_exceptions directly
MaxObs == 6         \* observation counts handed to kupiec_test directly

----------------------------------------------------------------------------
(* Python values *)

Ok(v) == [exc |-> "none", val |-> v]
Raise(type, msg) == [exc |-> type, msg |-> msg]
Raised(r) == r.exc # "none"

\* no function applied, nothing returned yet
NoCall == [fn |-> "none"]
NoReturn == [exc |-> "pending"]

Range(s) == {s[k] : k \in 1..Len(s)}

\* every sequence over S of length at most n
RECURSIVE SeqsUpTo(_, _)
SeqsUpTo(S, n) ==
    IF n = 0 THEN {<<>>}
    ELSE LET shorter == SeqsUpTo(S, n - 1)
         IN shorter \cup {Append(s, x) : s \in {t \in shorter : Len(t) = n - 1}, x \in S}

----------------------------------------------------------------------------
(* pandas: Index and Series operations used by the backtester *)

Index(s) == [k \in 1..Len(s) |-> s[k].idx]

IndexValues(s) == Range(Index(s))

\* Index.unique(): first occurrences, in order
RECURSIVE Unique(_)
Unique(ix) ==
    IF ix = <<>> THEN <<>>
    ELSE LET front == Unique(SubSeq(ix, 1, Len(ix) - 1))
             last == ix[Len(ix)]
         IN IF last \in Range(front) THEN front ELSE Append(front, last)

\* Index.intersection(other), sort=False: the unique labels of self that occur
\* in other, in the order of self
IndexIntersection(self, other) ==
    SelectSeq(Unique(self), LAMBDA x : x \in Range(other))

\* Series.loc[labels]: for each label in turn, every row carrying it
RECURSIVE Loc(_, _)
Loc(s, labels) ==
    IF labels = <<>> THEN <<>>
    ELSE SelectSeq(s, LAMBDA row : row.idx = Head(labels)) \o Loc(s, Tail(labels))

----------------------------------------------------------------------------
(* app/backtest.py *)

\* scipy.stats.norm.ppf at q per-mille, in thousandths (rounded), for the
\* probabilities 1 - c of the confidence levels the model uses
NormPpf(q) ==
    CASE q = 10 -> -2326
      [] q = 49 -> -1655
      [] q = 50 -> -1645
      [] q = 290 -> -553
      [] q = 710 -> 553
      [] q = 950 -> 1645
      [] q = 951 -> 1655
      [] q = 990 -> 2326

z_score_swapped(confidence_level) == NormPpf(confidence_level)

z_score(confidence_level) == NormPpf(1000 - confidence_level)

compute_var(conditional_volatility, confidence_level) ==
    [k \in 1..Len(conditional_volatility) |->
        [idx |-> conditional_volatility[k].idx,
         val |-> z_score(confidence_level) * conditional_volatility[k].val]]

\* (aligned_returns < aligned_var).sum(): pandas compares two Series only when
\* their indexes are equal, row by row
count_exceptions(returns, var) ==
    LET common_index == IndexIntersection(Index(returns), Index(var))
        aligned_returns == Loc(returns, common_index)
        aligned_var == Loc(var, common_index)
    IN IF Index(aligned_returns) # Index(aligned_var)
       THEN Raise("ValueError", "Can only compare identically-labeled Series objects")
       ELSE Ok(Cardinality({k \in 1..Len(aligned_returns) :
                               aligned_returns[k].val < aligned_var[k].val}))

\* The likelihood-ratio statistic, kept symbolic: LR = -2 * sum of
\* coef * ln(ln_num / ln_den) over terms; divisors are the values the chosen
\* branch divides by (1 - observed_rate and observed_rate, as fractions).
lr_general(exceptions, total_obs, expected_rate) ==
    [branch |-> "general",
     terms |-> << [coef |-> total_obs - exceptions,
                   ln_num |-> (1000 - expected_rate) * total_obs,
                   ln_den |-> 1000 * (total_obs - exceptions)],
                  [coef |-> exceptions,
                   ln_num |-> expected_rate * total_obs,
                   ln_den |-> 1000 * exceptions] >>,
     divisors |-> << [num |-> total_obs - exceptions, den |-> total_obs],
                     [num |-> exceptions, den |-> total_obs] >>]

lr_statistic_no_upper(exceptions, total_obs, expected_rate) ==
    IF exceptions = 0
    THEN [branch |-> "none",
          terms |-> << [coef |-> total_obs, ln_num |-> 1000 - expected_rate, ln_den |-> 1000] >>,
          divisors |-> << >>]
    ELSE lr_general(exceptions, total_obs, expected_rate)

lr_statistic(exceptions, total_obs, expected_rate) ==
    IF exceptions = 0
    THEN [branch |-> "none",
          terms |-> << [coef |-> total_obs, ln_num |-> 1000 - expected_rate, ln_den |-> 1000] >>,
          divisors |-> << >>]
    ELSE IF exceptions = total_obs
    THEN [branch |-> "all",
          terms |-> << [coef |-> total_obs, ln_num |-> expected_rate, ln_den |-> 1000] >>,
          divisors |-> << >>]
    ELSE lr_general(exceptions, total_obs, expected_rate)

\* numpy integer division: 0 / 0 is nan, nothing is raised
kupiec_test_no_raise(exceptions, total_obs, confidence_level) ==
    LET expected_rate == 1000 - confidence_level
    IN Ok([expected_exceptions |-> expected_rate * total_obs,
           observed_exceptions |-> exceptions,
           observed_rate |-> [num |-> exceptions, den |-> total_obs],
           lr_statistic |-> lr_statistic(exceptions, total_obs, expected_rate)])

\* p_value and reject_null are scipy's chi-squared tail of lr_statistic and its
\* comparison with 0.05: functions of lr_statistic alone, not represented.
\* exceptions / total_obs is Python int division: it raises when total_obs is 0.
\* expected_exceptions is in thousandths of an observation.
kupiec_test(exceptions, total_obs, confidence_level) ==
    LET expected_rate == 1000 - confidence_level
    IN IF total_obs = 0
       THEN Raise("ZeroDivisionError", "division by zero")
       ELSE Ok([expected_exceptions |-> expected_rate * total_obs,
                observed_exceptions |-> exceptions,
                observed_rate |-> [num |-> exceptions, den |-> total_obs],
                lr_statistic |-> lr_statistic(exceptions, total_obs, expected_rate)])

\* int(cl * 100) in IEEE double arithmetic: the product of k/1000 and 100 falls
\* just below the integer for 0.29, 0.57 and 0.58 (28.999999999999996, ...),
\* and int() truncates; for every other k in 1..999 it is k \div 10.
int_cl_times_100(cl) ==
    IF cl \in {290, 570, 580} THEN (cl \div 10) - 1 ELSE cl \div 10

\* f'var_{...}'
cl_key(cl) == <<"var_", int_cl_times_100(cl)>>

\* results[key] = value on a Python dict
DictSet(d, key, value) ==
    [k \in (DOMAIN d) \cup {key} |-> IF k = key THEN value ELSE d[k]]

EmptyDict == [k \in {} |-> k]

\* the for loop of backtest_var over confidence_levels[k..]
RECURSIVE backtest_loop(_, _, _, _, _, _)
backtest_loop(aligned_returns, aligned_vol, total_obs, confidence_levels, k, acc) ==
    IF k > Len(confidence_levels) THEN Ok(acc)
    ELSE LET cl == confidence_levels[k]
             var == compute_var(aligned_vol, cl)
             exceptions == count_exceptions(aligned_returns, var)
         IN IF Raised(exceptions) THEN exceptions
            ELSE LET kupiec_result == kupiec_test(exceptions.val, total_obs, cl)
                 IN IF Raised(kupiec_result) THEN kupiec_result
                    ELSE backtest_loop(aligned_returns, aligned_vol, total_obs,
                             confidence_levels, k + 1,
                             DictSet(acc, cl_key(cl),
                                 [confidence_level |-> cl,
                                  total_observations |-> total_obs,
                                  exceptions |-> exceptions.val,
                                  kupiec_test |-> kupiec_result.val]))

backtest_var_unaligned_count(returns, conditional_volatility, confidence_levels) ==
    LET common_index == IndexIntersection(Index(returns), Index(conditional_volatility))
        aligned_returns == Loc(returns, common_index)
        aligned_vol == Loc(conditional_volatility, common_index)
        total_obs == Len(returns)
    IN backtest_loop(aligned_returns, aligned_vol, total_obs, confidence_levels, 1, EmptyDict)

backtest_var(returns, conditional_volatility, confidence_levels) ==
    LET common_index == IndexIntersection(Index(returns), Index(conditional_volatility))
        aligned_returns == Loc(returns, common_index)
        aligned_vol == Loc(conditional_volatility, common_index)
        total_obs == Len(aligned_returns)
    IN backtest_loop(aligned_returns, aligned_vol, total_obs, confidence_levels, 1, EmptyDict)

\* the arguments of the calls of kupiec_test that the for loop of backtest_var
\* makes over confidence_levels[k..], in order, up to a call that raises
RECURSIVE kupiec_calls_loop(_, _, _, _, _)
kupiec_calls_loop(aligned_returns, aligned_vol, total_obs, confidence_levels, k) ==
    IF k > Len(confidence_levels) THEN << >>
    ELSE LET cl == confidence_levels[k]
             var == compute_var(aligned_vol, cl)
             exceptions == count_exceptions(aligned_returns, var)
         IN IF Raised(exceptions) THEN << >>
            ELSE << [exceptions |-> exceptions.val, total_obs |-> total_obs,
                     confidence_level |-> cl] >>
                 \o (IF Raised(kupiec_test(exceptions.val, total_obs, cl)) THEN << >>
                     ELSE kupiec_calls_loop(aligned_returns, aligned_vol, total_obs,
                              confidence_levels, k + 1))

backtest_var_kupiec_calls(returns, conditional_volatility, confidence_levels) ==
    LET common_index == IndexIntersection(Index(returns), Index(conditional_volatility))
        aligned_returns == Loc(returns, common_index)
        aligned_vol == Loc(conditional_volatility, common_index)
        total_obs == Len(aligned_returns)
    IN kupiec_calls_loop(aligned_returns, aligned_vol, total_obs, confidence_levels, 1)

DefaultLevels == <<950, 990>>

----------------------------------------------------------------------------
(* Input domains *)

Dates == 1..MaxDate
ConfLevels == {290, 950, 951, 990}
ReturnValues == {-2000, -1000}
VolValues == {1, 2}
CountReturnValues == {-2000, -1645}
CountVarValues == {-3290, -1645}

Rows(vals) == [idx : Dates, val : vals]

\* series whose index values are unique, in any order
UniqueSeries(vals) ==
    {s \in SeqsUpTo(Rows(vals), MaxDate) :
        \A a, b \in 1..Len(s) : a # b => s[a].idx # s[b].idx}

\* series as the data provider and the fitter produce them: unique index
\* values in increasing order
SortedSeries(vals) ==
    {s \in UniqueSeries(vals) : \A a, b \in 1..Len(s) : a < b => s[a].idx < s[b].idx}

\* any series of at most MaxRows rows: index values may repeat
AnySeries(vals) == SeqsUpTo(Rows(vals), MaxRows)

----------------------------------------------------------------------------
(* Outside the repository: the data provider (yfinance), the GARCH fitter   *)
(* (arch) and the diagnostic tests (statsmodels).  Each call returns a      *)
(* value the model draws from a small set, or raises.                       *)

AicValues == 0..MaxAic
FitVolValues == {1}
ProviderReturnValues == {-2000}
Lags == 10

\* what yf.download hands back: it raises, the frame is empty, or the frame
\* has some columns; rets is 100 * log(price / price.shift(1)).dropna() of
\* the price column
ColumnSets == {{"Adj Close", "Close"}, {"Close"}, {"Volume"}}

ProviderOutcomes ==
    {[kind |-> "raises"], [kind |-> "empty"]}
        \cup [kind : {"frame"}, columns : ColumnSets, rets : SortedSeries(ProviderReturnValues)]

\* the sub-sequences of a sequence
RECURSIVE SubSequences(_)
SubSequences(s) ==
    IF s = <<>> THEN {<<>>}
    ELSE LET rest == SubSequences(Tail(s))
         IN rest \cup {<<Head(s)>> \o t : t \in rest}

\* what model.fit hands back for a return series: it raises, or a result whose
\* conditional volatility and residuals are indexed by index values of the
\* returns (arch keeps the whole index; the model allows any sub-sequence)
ArchOutcomes(returns, dist) ==
    {Raise("FitError", "fit failed")}
        \cup {Ok([conditional_volatility |-> [k \in 1..Len(ix) |-> [idx |-> ix[k], val |-> v]],
                  resid |-> [k \in 1..Len(ix) |-> [idx |-> ix[k], val |-> 1]],
                  aic |-> a,
                  model_result |-> [dist |-> dist]]) :
                ix \in SubSequences(Index(returns)), v \in FitVolValues, a \in AicValues}

\* which of the three tests of compute_diagnostics raises, if any
DiagnosticOutcomes == {"none", "ljung_box", "ljung_box_squared", "arch_lm"}

----------------------------------------------------------------------------
(* app/data.py *)

download_returns(ticker, data) ==
    IF data.kind = "raises" THEN Raise("Exception", "download failed")
    ELSE IF data.kind = "empty"
    THEN Raise("ValueError", "No data downloaded for ticker " \o ticker)
    ELSE IF "Adj Close" \in data.columns \/ "Close" \in data.columns
    THEN Ok(data.rets)
    ELSE Raise("ValueError", "No price column found in downloaded data")

----------------------------------------------------------------------------
(* app/models.py *)

fit_garch(lib) ==
    IF Raised(lib) THEN lib
    ELSE LET result == lib.val
             conditional_volatility == result.conditional_volatility
         IN Ok([conditional_volatility |-> conditional_volatility,
                aic |-> result.aic,
                standardised_residuals |->
                    [k \in 1..Len(conditional_volatility) |->
                        [idx |-> conditional_volatility[k].idx,
                         val |-> [num |-> result.resid[k].val,
                                  den |-> conditional_volatility[k].val]]],
                model_result |-> result.model_result])

\* select_best_model once both fits have returned
select_best_model_strict(result_normal, result_t) ==
    IF result_normal.aic < result_t.aic
    THEN [selected_model |-> "normal", aic_normal |-> result_normal.aic,
          aic_t |-> result_t.aic, model_output |-> result_normal]
    ELSE [selected_model |-> "t", aic_normal |-> result_normal.aic,
          aic_t |-> result_t.aic, model_output |-> result_t]

select_best_model(result_normal, result_t) ==
    IF result_normal.aic <= result_t.aic
    THEN [selected_model |-> "normal", aic_normal |-> result_normal.aic,
          aic_t |-> result_t.aic, model_output |-> result_normal]
    ELSE [selected_model |-> "t", aic_normal |-> result_normal.aic,
          aic_t |-> result_t.aic, model_output |-> result_t]

\* select_best_model as a whole: both fits, in this order, then the selection
select_best_model_call(lib_normal, lib_t) ==
    LET result_normal == fit_garch(lib_normal)
    IN IF Raised(result_normal) THEN result_normal
       ELSE LET result_t == fit_garch(lib_t)
            IN IF Raised(result_t) THEN result_t
               ELSE Ok(select_best_model(result_normal.val, result_t.val))

----------------------------------------------------------------------------
(* app/diagnostics.py: the statistics are the libraries' numbers, kept as names *)

compute_diagnostics(outcome, lags) ==
    IF outcome # "none" THEN Raise("Exception", outcome \o " failed")
    ELSE Ok([ljung_box |-> [test_statistic |-> "lb_stat", p_value |-> "lb_pvalue",
                            lags |-> lags],
             ljung_box_squared |-> [test_statistic |-> "lb_stat", p_value |-> "lb_pvalue",
                                    lags |-> lags],
             arch_lm |-> [lm_statistic |-> "lm", lm_p_value |-> "lm_p",
                          f_statistic |-> "f", f_p_value |-> "f_p", lags |-> lags]])

----------------------------------------------------------------------------
(* backend/main.py and app/pipeline.py: the batch over the configured       *)
(* tickers.  run_pipeline runs inside the try of main's for loop; a stage   *)
(* that raises ends in main's except clause in the same step.               *)

tickers == <<"^FTSE", "^GSPC">>

ticker == tickers[i]

RECURSIVE SumVal(_)
SumVal(s) == IF s = <<>> THEN 0 ELSE Head(s).val + SumVal(Tail(s))

NaN == [nan |-> TRUE]

\* Series.mean(), .max(), .min(): NaN on an empty series
SeriesMean(s) == IF s = <<>> THEN NaN ELSE [sum |-> SumVal(s), count |-> Len(s)]
SeriesMax(s) ==
    IF s = <<>> THEN NaN
    ELSE [value |-> CHOOSE m \in {s[k].val : k \in 1..Len(s)} :
                        \A k \in 1..Len(s) : s[k].val <= m]
SeriesMin(s) ==
    IF s = <<>> THEN NaN
    ELSE [value |-> CHOOSE m \in {s[k].val : k \in 1..Len(s)} :
                        \A k \in 1..Len(s) : m <= s[k].val]

\* index.strftime('%Y-%m-%d').tolist()
Strftime(ix) == [k \in 1..Len(ix) |-> [ymd |-> ix[k]]]

\* a report whose summary counts the rows of the volatility series
AssembleReportVolCount(tk, returns, model_selection, diagnostics, var_backtest) ==
    LET conditional_volatility == model_selection.model_output.conditional_volatility
    IN [ticker |-> tk,
        selected_model |-> model_selection.selected_model,
        aic_values |-> [normal |-> model_selection.aic_normal, t |-> model_selection.aic_t],
        volatility |-> [k \in 1..Len(conditional_volatility) |-> conditional_volatility[k].val],
        volatility_index |-> Strftime(Index(conditional_volatility)),
        diagnostics |-> diagnostics,
        var_backtest |-> var_backtest,
        summary |-> [total_observations |-> Len(conditional_volatility),
                     mean_volatility |-> SeriesMean(conditional_volatility),
                     max_volatility |-> SeriesMax(conditional_volatility),
                     min_volatility |-> SeriesMin(conditional_volatility)]]

\* Step 6 of run_pipeline: the JSON-safe report
AssembleReport(tk, returns, model_selection, diagnostics, var_backtest) ==
    LET conditional_volatility == model_selection.model_output.conditional_volatility
    IN [ticker |-> tk,
        selected_model |-> model_selection.selected_model,
        aic_values |-> [normal |-> model_selection.aic_normal, t |-> model_selection.aic_t],
        volatility |-> [k \in 1..Len(conditional_volatility) |-> conditional_volatility[k].val],
        volatility_index |-> Strftime(Index(conditional_volatility)),
        diagnostics |-> diagnostics,
        var_backtest |-> var_backtest,
        summary |-> [total_observations |-> Len(returns),
                     mean_volatility |-> SeriesMean(conditional_volatility),
                     max_volatility |-> SeriesMax(conditional_volatility),
                     min_volatility |-> SeriesMin(conditional_volatility)]]

Init ==
    /\ i = 1
    /\ pc = "for"
    /\ results = EmptyDict
    /\ saved = [written |-> FALSE]
    /\ frame = EmptyDict
    /\ calls = [k \in 1..Len(tickers) |-> <<>>]
    /\ call = NoCall
    /\ ret = NoReturn

\* history: the current ticker's pipeline entered a stage, which returned (ok) or raised
Enter(entry) == calls' = [calls EXCEPT ![i] = Append(@, entry)]

\* without the try: the exception leaves main
ExceptUncaught(e) ==
    /\ pc' = "aborted"
    /\ frame' = EmptyDict
    /\ UNCHANGED <<i, results, saved>>

\* main's except clause: record the error entry, go on with the next ticker
Except(e) ==
    /\ results' = DictSet(results, ticker, [error |-> e.msg])
    /\ i' = i + 1
    /\ pc' = "for"
    /\ frame' = EmptyDict
    /\ UNCHANGED saved

\* for ticker in tickers: the next ticker enters the try and run_pipeline
\* (the print calls write to stdout and change nothing of the batch)
ForNext ==
    /\ pc = "for" /\ i <= Len(tickers)
    /\ pc' = "download_returns"
    /\ UNCHANGED <<i, results, saved, frame, calls, call, ret>>

\* the loop is exhausted: json.dump(results)
JsonDump ==
    /\ pc = "for" /\ i > Len(tickers)
    /\ saved' = [written |-> TRUE, content |-> results]
    /\ pc' = "done"
    /\ UNCHANGED <<i, results, frame, calls, call, ret>>

\* Step 1
DownloadReturns ==
    /\ pc = "download_returns"
    /\ \E data \in ProviderOutcomes :
          LET r == download_returns(ticker, data)
          IN /\ Enter([stage |-> "download_returns", ok |-> ~Raised(r)])
             /\ IF Raised(r) THEN Except(r)
                ELSE /\ frame' = [returns |-> r.val]
                     /\ pc' = "fit_normal"
                     /\ UNCHANGED <<i, results, saved>>
    /\ UNCHANGED <<call, ret>>

\* Step 2, select_best_model: the normal fit
FitNormal ==
    /\ pc = "fit_normal"
    /\ \E lib \in ArchOutcomes(frame.returns, "normal") :
          LET r == fit_garch(lib)
          IN /\ Enter([stage |-> "fit_garch_normal", ok |-> ~Raised(r)])
             /\ IF Raised(r) THEN Except(r)
                ELSE /\ frame' = [returns |-> frame.returns, result_normal |-> r.val]
                     /\ pc' = "fit_t"
                     /\ UNCHANGED <<i, results, saved>>
    /\ UNCHANGED <<call, ret>>

\* a selector that falls back on the normal fit when the Student-t fit raises
FitTFallback ==
    /\ pc = "fit_t"
    /\ \E lib \in ArchOutcomes(frame.returns, "t") :
          LET r == fit_garch(lib)
              other == IF Raised(r) THEN frame.result_normal ELSE r.val
          IN /\ Enter([stage |-> "fit_garch_t", ok |-> ~Raised(r)])
             /\ frame' = [returns |-> frame.returns,
                          model_selection |->
                              select_best_model(frame.result_normal, other)]
             /\ pc' = "compute_diagnostics"
             /\ UNCHANGED <<i, results, saved>>
    /\ UNCHANGED <<call, ret>>

\* Step 2, select_best_model: the Student-t fit, then the selection by AIC
FitT ==
    /\ pc = "fit_t"
    /\ \E lib \in ArchOutcomes(frame.returns, "t") :
          LET r == fit_garch(lib)
          IN /\ Enter([stage |-> "fit_garch_t", ok |-> ~Raised(r)])
             /\ IF Raised(r) THEN Except(r)
                ELSE /\ frame' = [returns |-> frame.returns,
                                  model_selection |->
                                      select_best_model(frame.result_normal, r.val)]
                     /\ pc' = "compute_diagnostics"
                     /\ UNCHANGED <<i, results, saved>>
    /\ UNCHANGED <<call, ret>>

\* Steps 3 and 4
ComputeDiagnostics ==
    /\ pc = "compute_diagnostics"
    /\ \E outcome \in DiagnosticOutcomes :
          LET r == compute_diagnostics(outcome, Lags)
          IN /\ Enter([stage |-> "compute_diagnostics", ok |-> ~Raised(r)])
             /\ IF Raised(r) THEN Except(r)
                ELSE /\ frame' = [returns |-> frame.returns,
                                  model_selection |-> frame.model_selection,
                                  diagnostics |-> r.val]
                     /\ pc' = "backtest_var"
                     /\ UNCHANGED <<i, results, saved>>
    /\ UNCHANGED <<call, ret>>

\* Step 5; the history keeps how many index values the two series share
BacktestVar ==
    /\ pc = "backtest_var"
    /\ LET conditional_volatility == frame.model_selection.model_output.conditional_volatility
           r == backtest_var(frame.returns, conditional_volatility, DefaultLevels)
       IN /\ Enter([stage |-> "backtest_var", ok |-> ~Raised(r),
                    common |-> Cardinality(IndexValues(frame.returns)
                                              \cap IndexValues(conditional_volatility))])
          /\ IF Raised(r) THEN Except(r)
             ELSE /\ frame' = [returns |-> frame.returns,
                               model_selection |-> frame.model_selection,
                               diagnostics |-> frame.diagnostics,
                               var_backtest |-> r.val]
                  /\ pc' = "assemble"
                  /\ UNCHANGED <<i, results, saved>>
    /\ UNCHANGED <<call, ret>>

\* Step 6 and the return into main: results[ticker] = result
AssembleResult ==
    /\ pc = "assemble"
    /\ Enter([stage |-> "assemble", ok |-> TRUE])
    /\ results' = DictSet(results, ticker,
                      AssembleReport(ticker, frame.returns, frame.model_selection,
                                     frame.diagnostics, frame.var_backtest))
    /\ i' = i + 1
    /\ pc' = "for"
    /\ frame' = EmptyDict
    /\ UNCHANGED <<saved, call, ret>>

Next ==
    \/ ForNext
    \/ DownloadReturns
    \/ FitNormal
    \/ FitT
    \/ ComputeDiagnostics
    \/ BacktestVar
    \/ AssembleResult
    \/ JsonDump

Spec == Init /\ [][Next]_vars

----------------------------------------------------------------------------
(* The functions of app/backtest.py and select_best_model applied to         *)
(* arguments of their own: one call per behaviour, chosen by Init.          *)

KupiecCalls ==
    {[fn |-> "kupiec_test", exceptions |-> x, total_obs |-> n, confidence_level |-> cl] :
        x \in 0..MaxObs, n \in 0..MaxObs, cl \in ConfLevels}

CountCalls ==
    [fn : {"count_exceptions"}, returns : AnySeries(CountReturnValues),
     var : AnySeries(CountVarValues)]

ComputeVarCalls ==
    [fn : {"compute_var"}, conditional_volatility : UniqueSeries(VolValues),
     confidence_level : ConfLevels]

BacktestCalls ==
    [fn : {"backtest_var"}, returns : UniqueSeries(ReturnValues),
     conditional_volatility : UniqueSeries(VolValues),
     confidence_levels : SeqsUpTo(ConfLevels, 2)]

SelectCalls ==
    UNION {[fn : {"select_best_model"}, returns : {r},
            lib_normal : ArchOutcomes(r, "normal"), lib_t : ArchOutcomes(r, "t")] :
              r \in SortedSeries(ProviderReturnValues)}

MainIdle ==
    /\ i = 0
    /\ pc = "idle"
    /\ results = EmptyDict
    /\ saved = [written |-> FALSE]
    /\ frame = EmptyDict
    /\ calls = <<>>

UnitInit ==
    /\ MainIdle
    /\ call \in {c \in KupiecCalls : c.exceptions <= c.total_obs}
                  \cup CountCalls \cup ComputeVarCalls \cup BacktestCalls
                  \cup SelectCalls
    /\ ret = NoReturn

CallKupiec ==
    /\ call.fn = "kupiec_test" /\ ret = NoReturn
    /\ ret' = kupiec_test(call.exceptions, call.total_obs, call.confidence_level)
    /\ UNCHANGED <<i, pc, results, saved, frame, calls, call>>

CallCountExceptions ==
    /\ call.fn = "count_exceptions" /\ ret = NoReturn
    /\ ret' = count_exceptions(call.returns, call.var)
    /\ UNCHANGED <<i, pc, results, saved, frame, calls, call>>

CallComputeVar ==
    /\ call.fn = "compute_var" /\ ret = NoReturn
    /\ ret' = Ok(compute_var(call.conditional_volatility, call.confidence_level))
    /\ UNCHANGED <<i, pc, results, saved, frame, calls, call>>

CallBacktestVar ==
    /\ call.fn = "backtest_var" /\ ret = NoReturn
    /\ ret' = backtest_var(call.returns, call.conditional_volatility, call.confidence_levels)
    /\ UNCHANGED <<i, pc, results, saved, frame, calls, call>>

CallSelectBestModel ==
    /\ call.fn = "select_best_model" /\ ret = NoReturn
    /\ ret' = select_best_model_call(call.lib_normal, call.lib_t)
    /\ UNCHANGED <<i, pc, results, saved, frame, calls, call>>

UnitNext ==
    \/ CallKupiec
    \/ CallCountExceptions
    \/ CallComputeVar
    \/ CallBacktestVar
    \/ CallSelectBestModel

SpecUnit == UnitInit /\ [][UnitNext]_vars

----------------------------------------------------------------------------
(* Properties of the backtester, under SpecUnit *)

Returned(fn) == call.fn = fn /\ ret # NoReturn

Min(a, b) == IF a <= b THEN a ELSE b

\* C2: when both fits return, select_best_model returns the fit whose AIC is
\* min(aicNormal, aicStudentT), normal on a tie; model_output is the fit of
\* the selected distribution and aic_normal, aic_t are those of the two fits.
C2_ModelSelection ==
    (Returned("select_best_model") /\ ~Raised(call.lib_normal) /\ ~Raised(call.lib_t)) =>
        /\ ~Raised(ret)
        /\ LET fitN == call.lib_normal.val
               fitT == call.lib_t.val
               ms == ret.val
           IN /\ ms.aic_normal = fitN.aic
              /\ ms.aic_t = fitT.aic
              /\ ms.model_output.aic = Min(fitN.aic, fitT.aic)
              /\ (fitN.aic = fitT.aic) => ms.selected_model = "normal"
              /\ ms.selected_model \in {"normal", "t"}
              /\ ms.model_output.model_result.dist = ms.selected_model
              /\ ms.model_output.conditional_volatility =
                    (IF ms.selected_model = "normal" THEN fitN ELSE fitT).conditional_volatility
              /\ Index(ms.model_output.standardised_residuals)
                    = Index(ms.model_output.conditional_volatility)

C2_Witness ==
    /\ Returned("select_best_model") /\ ~Raised(ret)
    /\ call.lib_normal.val.aic = 1 /\ call.lib_t.val.aic = 1
    /\ ret.val.selected_model = "normal"
    /\ call.lib_normal.val.conditional_volatility # call.lib_t.val.conditional_volatility

\* C3: for 0 <= x <= n and n >= 1, kupiec_test returns, with
\* LR = -2*n*ln(1-p) when x = 0, LR = -2*n*ln(p) when x = n, and the general
\* formula exactly when 0 < x < n; no branch taken divides by zero.
C3_KupiecBranchSelection ==
    (Returned("kupiec_test") /\ call.total_obs >= 1) =>
        /\ ~Raised(ret)
        /\ LET x == call.exceptions
               n == call.total_obs
               p == 1000 - call.confidence_level
               lr == ret.val.lr_statistic
           IN /\ (x = 0) =>
                    lr = [branch |-> "none",
                          terms |-> << [coef |-> n, ln_num |-> 1000 - p, ln_den |-> 1000] >>,
                          divisors |-> << >>]
              /\ (x = n) =>
                    lr = [branch |-> "all",
                          terms |-> << [coef |-> n, ln_num |-> p, ln_den |-> 1000] >>,
                          divisors |-> << >>]
              /\ (lr.branch = "general") <=> (0 < x /\ x < n)
              /\ \A k \in 1..Len(lr.divisors) : lr.divisors[k].num # 0
              /\ \A k \in 1..Len(lr.terms) : lr.terms[k].ln_den # 0 /\ lr.terms[k].ln_num > 0

C3_Witness ==
    /\ Returned("kupiec_test")
    /\ call.total_obs = 3 /\ call.exceptions = 3
    /\ ~Raised(ret) /\ ret.val.lr_statistic.branch = "all"

\* the number of index values present in both series whose return lies
\* strictly below the VaR (whichever rows carry that index value)
CommonBelow(returns, var) ==
    {d \in IndexValues(returns) \cap IndexValues(var) :
        \E a \in 1..Len(returns), b \in 1..Len(var) :
            /\ returns[a].idx = d /\ var[b].idx = d
            /\ returns[a].val < var[b].val}

\* C4 (as claimed): count_exceptions returns the number of index values
\* present in both series with return < VaR, whatever the order of the rows
\* and however often an index value is repeated.  Where an index value is
\* repeated, return[i] < VaR[i] may be read of any row carrying i: the count
\* claimed lies between the index values below the VaR in all their rows and
\* those below it in some row, and never exceeds the common index values.
C4_CountsCommonIndexValues ==
    Returned("count_exceptions") =>
        /\ ~Raised(ret)
        /\ ret.val <= Cardinality(IndexValues(call.returns) \cap IndexValues(call.var))
        /\ ret.val >= Cardinality({d \in IndexValues(call.returns) \cap IndexValues(call.var) :
                                     \A a \in 1..Len(call.returns), b \in 1..Len(call.var) :
                                        (call.returns[a].idx = d /\ call.var[b].idx = d)
                                            => call.returns[a].val < call.var[b].val})
        /\ ret.val <= Cardinality(CommonBelow(call.returns, call.var))

HasUniqueIndex(s) == \A a, b \in 1..Len(s) : a # b => s[a].idx # s[b].idx

\* what does hold of count_exceptions: on series whose index values are
\* unique, in any order, it returns the number of common index values with
\* return < VaR, strictly
CountOnUniqueIndex ==
    (Returned("count_exceptions") /\ HasUniqueIndex(call.returns) /\ HasUniqueIndex(call.var)) =>
        /\ ~Raised(ret)
        /\ ret.val = Cardinality(CommonBelow(call.returns, call.var))

\* C5: every entry of a backtest_var result carries the size of the index
\* intersection of returns and volatility as total_observations, and
\* expected_exceptions = (1 - c) * that count.
C5_ObservationCountConsistent ==
    (Returned("backtest_var") /\ ~Raised(ret)) =>
        LET n == Cardinality(IndexValues(call.returns)
                                \cap IndexValues(call.conditional_volatility))
        IN \A key \in DOMAIN ret.val :
              /\ ret.val[key].total_observations = n
              /\ ret.val[key].kupiec_test.expected_exceptions
                    = (1000 - ret.val[key].confidence_level) * n

C5_Witness ==
    /\ Returned("backtest_var") /\ ~Raised(ret)
    /\ Len(call.returns) = 2
    /\ Cardinality(DOMAIN ret.val) = 2
    /\ \A key \in DOMAIN ret.val : ret.val[key].total_observations = 1

\* what C11 says of a returned result: every entry has total_observations >= 1,
\* 0 <= exceptions <= total_observations, kupiec_test.observed_exceptions equal
\* to exceptions, and observed_rate = exceptions / total_observations in [0, 1]
BacktestEntriesSound ==
    (Returned("backtest_var") /\ ~Raised(ret)) =>
        \A key \in DOMAIN ret.val :
            LET e == ret.val[key]
            IN /\ e.total_observations >= 1
               /\ 0 <= e.exceptions /\ e.exceptions <= e.total_observations
               /\ e.kupiec_test.observed_exceptions = e.exceptions
               /\ e.kupiec_test.observed_rate
                     = [num |-> e.exceptions, den |-> e.total_observations]
               /\ 0 <= e.kupiec_test.observed_rate.num
               /\ e.kupiec_test.observed_rate.num <= e.kupiec_test.observed_rate.den

KupiecCallsOfBacktest ==
    backtest_var_kupiec_calls(call.returns, call.conditional_volatility,
                              call.confidence_levels)

\* C11 (as claimed): the entries of a returned result are sound, and
\* backtest_var calls kupiec_test only with 0 <= x <= n and n >= 1.
C11_KupiecOnlyCalledWithObservations ==
    /\ BacktestEntriesSound
    /\ Returned("backtest_var") =>
          \A k \in 1..Len(KupiecCallsOfBacktest) :
              LET c == KupiecCallsOfBacktest[k]
              IN 0 <= c.exceptions /\ c.exceptions <= c.total_obs /\ c.total_obs >= 1

\* C11 (amended): the entries of a returned result are sound; backtest_var
\* calls kupiec_test only with 0 <= x <= n; a call with n = 0 (no common
\* index value) is the last one and raises, so nothing is returned; when a
\* result is returned, kupiec_test was called once per requested level, each
\* time with n >= 1.
C11_BacktestResultInvariant ==
    /\ BacktestEntriesSound
    /\ Returned("backtest_var") =>
          /\ \A k \in 1..Len(KupiecCallsOfBacktest) :
                LET c == KupiecCallsOfBacktest[k]
                IN /\ 0 <= c.exceptions /\ c.exceptions <= c.total_obs
                   /\ (c.total_obs = 0) =>
                         /\ k = Len(KupiecCallsOfBacktest)
                         /\ ret = Raise("ZeroDivisionError", "division by zero")
          /\ ~Raised(ret) =>
                /\ Len(KupiecCallsOfBacktest) = Len(call.confidence_levels)
                /\ \A k \in 1..Len(KupiecCallsOfBacktest) :
                      KupiecCallsOfBacktest[k].total_obs >= 1

C11_Witness ==
    /\ Returned("backtest_var") /\ ~Raised(ret)
    /\ call.confidence_levels = <<950, 990>>
    /\ ret.val[<<"var_", 95>>].total_observations = 2
    /\ ret.val[<<"var_", 95>>].exceptions = 1
    /\ ret.val[<<"var_", 99>>].exceptions = 0

\* Python round() of cl * 100: to the nearest integer, ties to even
RoundPercent(cl) ==
    LET q == cl \div 10
        r == cl % 10
    IN IF r < 5 THEN q
       ELSE IF r > 5 THEN q + 1
       ELSE IF q % 2 = 0 THEN q ELSE q + 1

\* C6 (as claimed): the result of level c is stored under var_<round(c * 100)>.
C6_KeyIsRoundedPercent ==
    (Returned("backtest_var") /\ ~Raised(ret)) =>
        \A key \in DOMAIN ret.val :
            key = <<"var_", RoundPercent(ret.val[key].confidence_level)>>

PairwiseDistinct(s) == \A a, b \in 1..Len(s) : a # b => s[a] # s[b]

\* C7 (as claimed): for pairwise-distinct levels the result has one entry per
\* requested level, each level being the confidence_level of exactly one entry.
C7_OneResultPerLevel ==
    (Returned("backtest_var") /\ ~Raised(ret) /\ PairwiseDistinct(call.confidence_levels)) =>
        /\ Cardinality(DOMAIN ret.val) = Len(call.confidence_levels)
        /\ \A k \in 1..Len(call.confidence_levels) :
              Cardinality({key \in DOMAIN ret.val :
                  ret.val[key].confidence_level = call.confidence_levels[k]}) = 1

\* C8: z(0.99) < z(0.95) < 0 and z decreases strictly in c; compute_var gives
\* VaR[t] = z(c) * sigma[t] on exactly the index of the volatility series, and
\* the VaR of every higher level lies at or below it at every index.
C8_VarMonotoneInLevel ==
    Returned("compute_var") =>
        LET vol == call.conditional_volatility
            c == call.confidence_level
            var == ret.val
        IN /\ Index(var) = Index(vol)
           /\ \A k \in 1..Len(vol) : var[k].val = NormPpf(1000 - c) * vol[k].val
           /\ z_score(990) < z_score(950) /\ z_score(950) < 0
           /\ \A c2 \in ConfLevels : c2 > c =>
                 /\ z_score(c2) < z_score(c)
                 /\ \A k \in 1..Len(vol) : compute_var(vol, c2)[k].val <= var[k].val

C8_Witness ==
    /\ Returned("compute_var")
    /\ call.confidence_level = 950
    /\ Len(ret.val) = 2
    /\ ret.val[1].idx = 2 /\ ret.val[1].val = -3290
    /\ compute_var(call.conditional_volatility, 990)[1].val < ret.val[1].val


----------------------------------------------------------------------------
(* Properties of the batch, under Spec *)

ReportKeys ==
    {"ticker", "selected_model", "aic_values", "volatility", "volatility_index",
     "diagnostics", "var_backtest", "summary"}

StageOrder ==
    <<"download_returns", "fit_garch_normal", "fit_garch_t", "compute_diagnostics",
      "backtest_var", "assemble">>

InPipeline == pc \in {"download_returns", "fit_normal", "fit_t", "compute_diagnostics",
                      "backtest_var", "assemble"}

\* the tickers whose iteration of the for loop is over
Processed == 1..(i - 1)

LastCall(k) == calls[k][Len(calls[k])]
PipelineReturned(k) == calls[k] # <<>> /\ LastCall(k).stage = "assemble"
PipelineRaised(k) == calls[k] # <<>> /\ ~LastCall(k).ok

\* C1: no failure leaves the loop; the collected results hold exactly one
\* entry per ticker processed so far, the full report when run_pipeline
\* returned and an entry with only `error` when it raised; when the batch is
\* done every configured ticker has been processed.
C1_BatchIsolation ==
    /\ pc # "aborted"
    /\ DOMAIN results = {tickers[k] : k \in Processed}
    /\ \A k \in Processed :
          \/ /\ PipelineReturned(k)
             /\ DOMAIN results[tickers[k]] = ReportKeys
             /\ results[tickers[k]].ticker = tickers[k]
          \/ /\ PipelineRaised(k)
             /\ DOMAIN results[tickers[k]] = {"error"}
    /\ (pc = "done") =>
          /\ Processed = 1..Len(tickers)
          /\ \A k \in 1..Len(tickers) : calls[k] # <<>>
          /\ saved = [written |-> TRUE, content |-> results]
    /\ (pc # "done") => (pc = "for" \/ InPipeline)

C1_Witness ==
    /\ pc = "done"
    /\ PipelineRaised(1) /\ DOMAIN results[tickers[1]] = {"error"}
    /\ PipelineReturned(2) /\ DOMAIN results[tickers[2]] = ReportKeys

\* C9: a backtest of two series with no index value in common raises; the
\* run ends there and main records `division by zero` as that ticker's error
\* entry; no report carries total_observations = 0, and the other tickers
\* keep their own entries.
C9_EmptyAlignmentIsError ==
    /\ \A k \in 1..Len(tickers) : \A n \in 1..Len(calls[k]) :
          (calls[k][n].stage = "backtest_var" /\ calls[k][n].common = 0) =>
              /\ ~calls[k][n].ok
              /\ n = Len(calls[k])
              /\ pc # "aborted"
              /\ k \in Processed
              /\ results[tickers[k]] = [error |-> "division by zero"]
              /\ \A j \in Processed \ {k} :
                    PipelineReturned(j) => DOMAIN results[tickers[j]] = ReportKeys
    /\ \A t \in DOMAIN results :
          ("var_backtest" \in DOMAIN results[t]) =>
              \A key \in DOMAIN results[t].var_backtest :
                  results[t].var_backtest[key].total_observations >= 1

C9_Witness ==
    /\ pc = "done"
    /\ Len(calls[1]) = 5 /\ LastCall(1).stage = "backtest_var" /\ LastCall(1).common = 0
    /\ results[tickers[1]] = [error |-> "division by zero"]
    /\ DOMAIN results[tickers[2]] = ReportKeys

PcOfStage ==
    <<"download_returns", "fit_normal", "fit_t", "compute_diagnostics",
      "backtest_var", "assemble">>

\* C10: each run enters the stages in the fixed order, each at most once; a
\* stage that raises is the last one entered; a processed ticker has the
\* report only when all six stages returned and an `error`-only entry
\* otherwise; a ticker still running has no entry.
C10_FailFastStaging ==
    \A k \in 1..Len(tickers) :
        LET h == calls[k]
        IN /\ Len(h) <= Len(StageOrder)
           /\ \A n \in 1..Len(h) : h[n].stage = StageOrder[n]
           /\ \A n \in 1..(Len(h) - 1) : h[n].ok
           /\ (k \in Processed) =>
                 /\ h # <<>>
                 /\ IF LastCall(k).ok
                    THEN Len(h) = Len(StageOrder) /\ DOMAIN results[tickers[k]] = ReportKeys
                    ELSE DOMAIN results[tickers[k]] = {"error"}
           /\ (k \notin Processed) => tickers[k] \notin DOMAIN results
           /\ (k = i /\ InPipeline) =>
                 /\ \A n \in 1..Len(h) : h[n].ok
                 /\ pc = PcOfStage[Len(h) + 1]
           /\ (k > i \/ (k = i /\ pc = "for")) => h = <<>>

C10_Witness ==
    /\ pc = "done"
    /\ Len(calls[1]) = 3 /\ ~LastCall(1).ok
    /\ DOMAIN results[tickers[1]] = {"error"}
    /\ Len(calls[2]) = 2 /\ ~LastCall(2).ok
    /\ DOMAIN results[tickers[2]] = {"error"}

\* C12: in the report a successful run stores, summary.total_observations is
\* the length of the return series and is at least total_observations of
\* every var_backtest entry, with equality exactly when every index value of
\* the returns occurs in the conditional volatility; volatility and
\* volatility_index have the same length.
C12_ObservationCountsRelated ==
    [][(pc = "assemble" /\ pc' = "for") =>
          LET report == results'[ticker]
              returns == frame.returns
              vol == frame.model_selection.model_output.conditional_volatility
          IN /\ DOMAIN report = ReportKeys
             /\ Len(report.volatility) = Len(report.volatility_index)
             /\ Len(report.volatility) = Len(vol)
             /\ report.summary.total_observations = Len(returns)
             /\ DOMAIN report.var_backtest = {cl_key(950), cl_key(990)}
             /\ \A key \in DOMAIN report.var_backtest :
                   /\ report.summary.total_observations
                         >= report.var_backtest[key].total_observations
                   /\ (report.summary.total_observations
                         = report.var_backtest[key].total_observations)
                       <=> (IndexValues(returns) \subseteq IndexValues(vol))
      ]_vars

C12_Witness ==
    /\ pc = "done"
    /\ DOMAIN results[tickers[2]] = ReportKeys
    /\ results[tickers[2]].summary.total_observations = 2
    /\ results[tickers[2]].var_backtest[<<"var_", 95>>].total_observations = 1
    /\ results[tickers[2]].var_backtest[<<"var_", 99>>].total_observations = 1
    /\ Len(results[tickers[2]].volatility) = 1
    /\ Len(results[tickers[2]].volatility_index) = 1

====
